---- MODULE Spec2Model ----
(***************************************************************************)
(* Content-plan generator (src/src/App.tsx, src/src/services/              *)
(* geminiService.ts, src/unnamed/part_000).                                *)
(*                                                                         *)
(* The React component App keeps the plan store (plan), the run gate       *)
(* (loadingStage), the visible screen (step) and the publish dialog flag.  *)
(* Every async handler is a process that is suspended at its awaits; the   *)
(* values a handler closed over when it was invoked (plan, post) are kept  *)
(* in its slot and are NOT refreshed while it is suspended.  setPlan with  *)
(* a value replaces the store; setPlan with an updater function reads the  *)
(* store at the time it is applied.  Immutable post fields (title, type,    *)
(* day, date) are not carried; a post's title is identified with its id.   *)
(* fetchWithRetry is modelled on its own (SpecRetry); in Spec an external   *)
(* call is one step that resolves or rejects.                              *)
(***************************************************************************)
EXTENDS Integers, Sequences, FiniteSets, TLC

\* ---------------------------------------------------------------- bounds
\* Posts returned by one plan-text call.
NumPosts == 2
\* Generation runs the user may request.
MaxRuns == 2
\* User operations (submit, approve, edit, publish, regenerate) started in total.
MaxOps == 4
\* Edits that may be in flight at the same time.
MaxEditsInFlight == 2
\* Largest retries argument handed to fetchWithRetry.
MaxRetries == 5

Runs == 1..MaxRuns
EditSlots == 1..MaxEditsInFlight

\* ---------------------------------------------------------------- values
PENDING == "PENDING"
APPROVED == "APPROVED"
PUBLISHED == "PUBLISHED"
PostStatus == {PENDING, APPROVED, PUBLISHED}

\* plan === null
NoPlan == [run |-> 0, posts |-> << >>]

\* Text fields: 0 is absent/empty (falsy), 1 the generated text, 2 an edited text.
GeneratedText == 1
EditedText == 2

\* imageUrl: '' | data:image/png;base64,... | https://picsum.photos/seed/<id>/800/800
EmptyUrl == [kind |-> "empty", seed |-> 0]
DataUrl == [kind |-> "data", seed |-> 0]
PlaceholderUrl(id) == [kind |-> "picsum", seed |-> id]

\* Math.random().toString(36).substr(2, 9): a fresh id per post of each run.
PostId(r, i) == (r - 1) * NumPosts + i
PostIds == 1..(MaxRuns * NumPosts)

VARIABLES step, loadingStage, plan, showPublishDialog, history, savedHistory,
          runPc, runHistory, runError, imgIdx, imgInFlight, imgLog,
          edits, pub, regen, ops, editsOk, lastEdit, lastPublish,
          rt, img, norm, dedup, appended

vars == <<step, loadingStage, plan, showPublishDialog, history, savedHistory,
          runPc, runHistory, runError, imgIdx, imgInFlight, imgLog,
          edits, pub, regen, ops, editsOk, lastEdit, lastPublish,
          rt, img, norm, dedup, appended>>

histVars == <<history, savedHistory, runHistory>>

\* What the image loop of each run has in flight and has written so far.
imgVars == <<imgInFlight, imgLog>>

\* The state of App other than the history lists.
appVarsNoHistory == <<step, loadingStage, plan, showPublishDialog, runPc, runHistory,
                      runError, imgIdx, imgInFlight, imgLog, edits, pub, regen, ops,
                      editsOk, lastEdit, lastPublish>>

appVars == <<appVarsNoHistory, history, savedHistory>>

\* The state of the helpers that are checked on their own.
pureVars == <<rt, img, norm, dedup, appended>>

\* ---------------------------------------------------------------- helpers
Ids(p) == {p.posts[i].id : i \in 1..Len(p.posts)}

HasPost(p, id) == id \in Ids(p)

\* plan.posts.find(p => p.id === id)
FindPost(p, id) == p.posts[CHOOSE i \in 1..Len(p.posts) : p.posts[i].id = id]

\* posts.map(p => p.id === id ? f(p) : p)
MapPost(posts, id, new) == [i \in 1..Len(posts) |->
                              IF posts[i].id = id THEN new ELSE posts[i]]

\* Variant in which an imageUrl that is already set is kept (first write wins).
SetImageUrl_KeepsExisting(prev, id, url) ==
  IF prev = NoPlan THEN NoPlan
  ELSE [prev EXCEPT !.posts = [i \in 1..Len(prev.posts) |->
          IF prev.posts[i].id = id /\ prev.posts[i].imageUrl = EmptyUrl
          THEN [prev.posts[i] EXCEPT !.imageUrl = url]
          ELSE prev.posts[i]]]

\* setPlan(prev => prev ? {...prev, posts: prev.posts.map(p => p.id === id ? {...p, imageUrl} : p)} : null)
SetImageUrl(prev, id, url) ==
  IF prev = NoPlan THEN NoPlan
  ELSE [prev EXCEPT !.posts = [i \in 1..Len(prev.posts) |->
          IF prev.posts[i].id = id
          THEN [prev.posts[i] EXCEPT !.imageUrl = url]
          ELSE prev.posts[i]]]

\* generateContentPlan's normalisation of the raw records of run r.
NormalizedPost(r, i) ==
  [id |-> PostId(r, i), status |-> PENDING, editCount |-> 0,
   content |-> GeneratedText, script |-> GeneratedText,
   imagePrompt |-> GeneratedText, imageUrl |-> EmptyUrl]

generateContentPlan(r) == [i \in 1..NumPosts |-> NormalizedPost(r, i)]

IdleEdit == [pc |-> "idle", plan |-> NoPlan, id |-> 0,
             updated |-> [content |-> 0, script |-> 0, imagePrompt |-> 0]]
IdlePublish == [pc |-> "idle", plan |-> NoPlan, approvedPosts |-> {}]
IdleRegen == [pc |-> "idle", id |-> 0]
IdleRetry == [pc |-> "idle", variant |-> "none", budget |-> 0, retries |-> 0,
              delay |-> 0, attempts |-> 0, waits |-> << >>, error |-> "none"]
IdleImage == [pc |-> "idle", variant |-> "none", id |-> 0, results |-> << >>]
IdleNorm == [pc |-> "idle"]
IdleDedup == [pc |-> "idle"]

Init ==
  /\ step = "form"
  /\ loadingStage = -1
  /\ plan = NoPlan
  /\ showPublishDialog = FALSE
  /\ history = << >>
  /\ savedHistory = << >>
  /\ runPc = [r \in Runs |-> "idle"]
  /\ runHistory = [r \in Runs |-> << >>]
  /\ runError = [r \in Runs |-> "none"]
  /\ imgInFlight = [r \in Runs |-> {}]
  /\ imgLog = [r \in Runs |-> << >>]
  /\ imgIdx = [r \in Runs |-> 1]
  /\ edits = [s \in EditSlots |-> IdleEdit]
  /\ pub = IdlePublish
  /\ regen = IdleRegen
  /\ ops = 0
  /\ editsOk = [id \in PostIds |-> 0]
  /\ lastEdit = "none"
  /\ lastPublish = "none"
  /\ rt = IdleRetry
  /\ img = IdleImage
  /\ norm = IdleNorm
  /\ dedup = IdleDedup
  /\ appended = << >>

\* ------------------------------------------------- handleFormSubmit (a run)
\* App.tsx:61  if (loadingStage >= 0) return;
RunGateClosed == loadingStage >= 0

\* The form is rendered only while step === 'form'; run r is the next unused run.
handleFormSubmit(r) ==
  /\ step = "form"
  /\ ~RunGateClosed
  /\ runPc[r] = "idle"
  /\ \A q \in Runs : q < r => runPc[q] # "idle"
  /\ ops < MaxOps
  /\ loadingStage' = 0
  /\ runPc' = [runPc EXCEPT ![r] = "analysis"]
  /\ runHistory' = [runHistory EXCEPT ![r] = history]
  /\ ops' = ops + 1
  /\ UNCHANGED <<history, savedHistory, step, plan, showPublishDialog, imgIdx, edits,
                 pub, regen, editsOk, lastEdit, lastPublish, runError, imgVars, pureVars>>

\* generateAnalysis resolved: the run goes on to the one-second pause.
AnalysisResolved(r) ==
  /\ runPc[r] = "analysis"
  /\ runPc' = [runPc EXCEPT ![r] = "pause"]
  /\ UNCHANGED <<histVars, step, loadingStage, plan, showPublishDialog, imgIdx, edits, pub,
                 regen, ops, editsOk, lastEdit, lastPublish, runError, imgVars, pureVars>>

\* Variant in which the catch does not reset the loading stage.
AnalysisRejected_KeepsGate(r) ==
  /\ runPc[r] = "analysis"
  /\ runPc' = [runPc EXCEPT ![r] = "failed"]
  /\ runError' = [runError EXCEPT ![r] = "analysis"]
  /\ UNCHANGED <<histVars, step, loadingStage, plan, showPublishDialog, imgIdx, edits, pub,
                 regen, ops, editsOk, lastEdit, lastPublish, imgVars, pureVars>>

\* generateAnalysis threw (call failed, empty text, unparseable): the top-level
\* catch alerts the error (runError records the stage that threw).
AnalysisRejected(r) ==
  /\ runPc[r] = "analysis"
  /\ loadingStage' = -1
  /\ runPc' = [runPc EXCEPT ![r] = "failed"]
  /\ runError' = [runError EXCEPT ![r] = "analysis"]
  /\ UNCHANGED <<histVars, step, plan, showPublishDialog, imgIdx, edits, pub, regen, ops,
                 editsOk, lastEdit, lastPublish, imgVars, pureVars>>

\* The 1000 ms timer fired: setLoadingStage(2) and the plan-text call is issued.
PauseDone(r) ==
  /\ runPc[r] = "pause"
  /\ loadingStage' = 2
  /\ runPc' = [runPc EXCEPT ![r] = "planText"]
  /\ UNCHANGED <<histVars, step, plan, showPublishDialog, imgIdx, edits, pub, regen, ops,
                 editsOk, lastEdit, lastPublish, runError, imgVars, pureVars>>

\* newHistory.slice(-100)
HistoryCap == 100

\* Variant that keeps the first n entries.
SliceLast_KeepsOldest(seq, n) ==
  IF Len(seq) <= n THEN seq ELSE SubSeq(seq, 1, n)

\* seq.slice(-n): the last n entries of seq, all of it when it is shorter.
SliceLast(seq, n) ==
  IF Len(seq) <= n THEN seq ELSE SubSeq(seq, Len(seq) - n + 1, Len(seq))

\* [...history, ...posts.map(p => ({ niche: data.niche, title: p.title }))], with
\* history the list handleFormSubmit closed over; a post's title is identified
\* with its id, a run's niche with the run.
NewHistory(h, r) == h \o [i \in 1..NumPosts |-> [niche |-> r, title |-> PostId(r, i)]]

\* generateContentPlan resolved: setPlan(newPlan), setStep('dashboard'),
\* setLoadingStage(-1), the history is extended and saved, and the image loop
\* starts with its first throttle delay.
PlanTextResolved(r) ==
  /\ runPc[r] = "planText"
  /\ plan' = [run |-> r, posts |-> generateContentPlan(r)]
  /\ step' = "dashboard"
  /\ loadingStage' = -1
  /\ imgIdx' = [imgIdx EXCEPT ![r] = 1]
  /\ runPc' = [runPc EXCEPT ![r] = IF NumPosts = 0 THEN "done" ELSE "throttle"]
  /\ history' = NewHistory(runHistory[r], r)
  /\ savedHistory' = SliceLast(NewHistory(runHistory[r], r), HistoryCap)
  /\ UNCHANGED <<runHistory, showPublishDialog, edits, pub, regen, ops, editsOk,
                 lastEdit, lastPublish, runError, imgVars, pureVars>>

\* Variant in which the run commits a plan holding the analysis alone before the
\* plan-text call.
PlanTextRejected_CommitsAnalysis(r) ==
  /\ runPc[r] = "planText"
  /\ loadingStage' = -1
  /\ runPc' = [runPc EXCEPT ![r] = "failed"]
  /\ runError' = [runError EXCEPT ![r] = "planText"]
  /\ plan' = [run |-> r, posts |-> << >>]
  /\ UNCHANGED <<histVars, step, showPublishDialog, imgIdx, edits, pub, regen, ops,
                 editsOk, lastEdit, lastPublish, imgVars, pureVars>>

\* generateContentPlan threw (call failed, empty text, unparseable): the
\* top-level catch alerts the error.
PlanTextRejected(r) ==
  /\ runPc[r] = "planText"
  /\ loadingStage' = -1
  /\ runPc' = [runPc EXCEPT ![r] = "failed"]
  /\ runError' = [runError EXCEPT ![r] = "planText"]
  /\ UNCHANGED <<histVars, step, plan, showPublishDialog, imgIdx, edits, pub, regen, ops,
                 editsOk, lastEdit, lastPublish, imgVars, pureVars>>

\* Variant in which the calls for all remaining posts are started together.
ImageThrottleDone_FanOut(r) ==
  /\ runPc[r] = "throttle"
  /\ runPc' = [runPc EXCEPT ![r] = "imageCall"]
  /\ imgInFlight' = [imgInFlight EXCEPT ![r] = {PostId(r, i) : i \in imgIdx[r]..NumPosts}]
  /\ UNCHANGED <<histVars, step, loadingStage, plan, showPublishDialog, imgIdx, edits, pub,
                 regen, ops, editsOk, lastEdit, lastPublish, runError, imgLog, pureVars>>

\* await new Promise(resolve => setTimeout(resolve, 4000)) at the top of the loop
\* body: the timer fired and generateImageForPost(post, ...) is called.
ImageThrottleDone(r) ==
  /\ runPc[r] = "throttle"
  /\ runPc' = [runPc EXCEPT ![r] = "imageCall"]
  /\ imgInFlight' = [imgInFlight EXCEPT ![r] = @ \cup {PostId(r, imgIdx[r])}]
  /\ UNCHANGED <<histVars, step, loadingStage, plan, showPublishDialog, imgIdx, edits, pub,
                 regen, ops, editsOk, lastEdit, lastPublish, runError, imgLog, pureVars>>

\* generateImageForPost: the generated image, or the placeholder on any failure.
generateImageForPost(id, ok) == IF ok THEN DataUrl ELSE PlaceholderUrl(id)

\* Variant in which a failed image call reaches the top-level catch of the run.
ImageCallDone_AbortsOnFailure(r, ok) ==
  /\ runPc[r] = "imageCall"
  /\ plan' = IF ok THEN SetImageUrl(plan, PostId(r, imgIdx[r]), DataUrl) ELSE plan
  /\ imgIdx' = [imgIdx EXCEPT ![r] = IF ok THEN @ + 1 ELSE @]
  /\ runPc' = [runPc EXCEPT ![r] = IF ~ok THEN "failed"
                                   ELSE IF imgIdx[r] = NumPosts THEN "done" ELSE "throttle"]
  /\ runError' = [runError EXCEPT ![r] = IF ok THEN @ ELSE "image"]
  /\ loadingStage' = IF ok THEN loadingStage ELSE -1
  /\ imgInFlight' = [imgInFlight EXCEPT ![r] = @ \ {PostId(r, imgIdx[r])}]
  /\ imgLog' = [imgLog EXCEPT ![r] = IF ok THEN Append(@, PostId(r, imgIdx[r])) ELSE @]
  /\ UNCHANGED <<histVars, step, showPublishDialog, edits, pub, regen, ops,
                 editsOk, lastEdit, lastPublish, pureVars>>

\* The image call of post imgIdx[r] returned; its imageUrl is patched into the
\* store as it is now, and the loop moves to the next post.
ImageCallDone(r, ok) ==
  /\ runPc[r] = "imageCall"
  /\ plan' = SetImageUrl(plan, PostId(r, imgIdx[r]),
                         generateImageForPost(PostId(r, imgIdx[r]), ok))
  /\ imgIdx' = [imgIdx EXCEPT ![r] = @ + 1]
  /\ runPc' = [runPc EXCEPT ![r] = IF imgIdx[r] = NumPosts THEN "done" ELSE "throttle"]
  /\ imgInFlight' = [imgInFlight EXCEPT ![r] = @ \ {PostId(r, imgIdx[r])}]
  /\ imgLog' = [imgLog EXCEPT ![r] = Append(@, PostId(r, imgIdx[r]))]
  /\ UNCHANGED <<histVars, step, loadingStage, showPublishDialog, edits, pub, regen, ops,
                 editsOk, lastEdit, lastPublish, runError, pureVars>>

\* The back button of the dashboard: setStep('form').
GoBack ==
  /\ step = "dashboard"
  /\ step' = "form"
  /\ UNCHANGED <<histVars, loadingStage, plan, showPublishDialog, runPc, imgIdx, edits, pub,
                 regen, ops, editsOk, lastEdit, lastPublish, runError, imgVars, pureVars>>

\* ---------------------------------------------------------------- approvePost
\* PostCard is rendered for the posts of the current plan while step is 'dashboard'.
CanClickPost(id) ==
  /\ step = "dashboard"
  /\ plan # NoPlan
  /\ id \in Ids(plan)
  /\ ops < MaxOps

approvePost(id) ==
  /\ CanClickPost(id)
  /\ plan' = [plan EXCEPT !.posts = [i \in 1..Len(plan.posts) |->
                IF plan.posts[i].id = id
                THEN [plan.posts[i] EXCEPT !.status = APPROVED]
                ELSE plan.posts[i]]]
  /\ ops' = ops + 1
  /\ UNCHANGED <<histVars, step, loadingStage, showPublishDialog, runPc, imgIdx, edits, pub,
                 regen, editsOk, lastEdit, lastPublish, runError, imgVars, pureVars>>

\* ---------------------------------------------------------------- handleEditPost
\* The JSON the edit-text model returns: content is required, script and
\* imagePrompt are optional (0 = absent).
EditResponses ==
  {[content |-> EditedText, script |-> 0, imagePrompt |-> 0],
   [content |-> EditedText, script |-> EditedText, imagePrompt |-> EditedText]}

\* The value editPostContent returns for post, the parsed response and the
\* outcome of its image call.
editPostContent(post, updated, imgOk) ==
  [post EXCEPT !.content = updated.content,
               !.script = IF updated.script # 0 THEN updated.script ELSE post.script,
               !.imagePrompt = IF updated.imagePrompt # 0 THEN updated.imagePrompt
                               ELSE post.imagePrompt,
               !.imageUrl = IF imgOk THEN DataUrl ELSE post.imageUrl,
               !.editCount = post.editCount + 1,
               !.status = PENDING]

\* handleEditPost is invoked: it closes over the plan of the current render and
\* awaits the edit-text call.  Slot s is the lowest free slot.
handleEditPost(s, id) ==
  /\ CanClickPost(id)
  /\ edits[s].pc = "idle"
  /\ \A q \in EditSlots : q < s => edits[q].pc # "idle"
  /\ edits' = [edits EXCEPT ![s] = [IdleEdit EXCEPT !.pc = "text", !.plan = plan,
                                                    !.id = id]]
  /\ ops' = ops + 1
  /\ UNCHANGED <<histVars, step, loadingStage, plan, showPublishDialog, runPc, imgIdx, pub,
                 regen, editsOk, lastEdit, lastPublish, runError, imgVars, pureVars>>

\* The edit-text call returned a non-empty JSON text: the image call is issued.
EditTextResolved(s, updated) ==
  /\ edits[s].pc = "text"
  /\ edits' = [edits EXCEPT ![s].pc = "image", ![s].updated = updated]
  /\ UNCHANGED <<histVars, step, loadingStage, plan, showPublishDialog, runPc, imgIdx, pub,
                 regen, ops, editsOk, lastEdit, lastPublish, runError, imgVars, pureVars>>

\* Mutant: the failed edit still resets the post's status in the store.
EditTextRejected_ResetsStatus(s) ==
  /\ edits[s].pc = "text"
  /\ plan' = IF plan = NoPlan THEN NoPlan
             ELSE [plan EXCEPT !.posts = [i \in 1..Len(plan.posts) |->
                     IF plan.posts[i].id = edits[s].id
                     THEN [plan.posts[i] EXCEPT !.status = PENDING]
                     ELSE plan.posts[i]]]
  /\ edits' = [edits EXCEPT ![s] = IdleEdit]
  /\ lastEdit' = "fail"
  /\ UNCHANGED <<histVars, step, loadingStage, showPublishDialog, runPc, imgIdx, pub,
                 regen, ops, editsOk, lastPublish, runError, imgVars, pureVars>>

\* The edit-text call raised or returned an empty text: handleEditPost's catch.
EditTextRejected(s) ==
  /\ edits[s].pc = "text"
  /\ edits' = [edits EXCEPT ![s] = IdleEdit]
  /\ lastEdit' = "fail"
  /\ UNCHANGED <<histVars, step, loadingStage, plan, showPublishDialog, runPc, imgIdx, pub,
                 regen, ops, editsOk, lastPublish, runError, imgVars, pureVars>>

\* The plan handleEditPost hands to setPlan: built from the plan it closed over.
EditedPlan(e, imgOk) ==
  [e.plan EXCEPT !.posts =
     MapPost(e.plan.posts, e.id, editPostContent(FindPost(e.plan, e.id), e.updated, imgOk))]

\* The image call inside editPostContent ended (its failure is swallowed);
\* editPostContent returns and handleEditPost commits.
EditImageDone(s, imgOk) ==
  /\ edits[s].pc = "image"
  /\ plan' = EditedPlan(edits[s], imgOk)
  /\ editsOk' = [editsOk EXCEPT ![edits[s].id] = @ + 1]
  /\ edits' = [edits EXCEPT ![s] = IdleEdit]
  /\ lastEdit' = "ok"
  /\ UNCHANGED <<histVars, step, loadingStage, showPublishDialog, runPc, imgIdx, pub, regen,
                 ops, lastPublish, runError, imgVars, pureVars>>

\* ---------------------------------------------------------------- handlePublish
OpenPublishDialog ==
  /\ step = "dashboard"
  /\ ~showPublishDialog
  /\ showPublishDialog' = TRUE
  /\ UNCHANGED <<histVars, step, loadingStage, plan, runPc, imgIdx, edits, pub, regen, ops,
                 editsOk, lastEdit, lastPublish, runError, imgVars, pureVars>>

CancelPublishDialog ==
  /\ showPublishDialog
  /\ showPublishDialog' = FALSE
  /\ UNCHANGED <<histVars, step, loadingStage, plan, runPc, imgIdx, edits, pub, regen, ops,
                 editsOk, lastEdit, lastPublish, runError, imgVars, pureVars>>

IsApproved(p) == p.status = APPROVED

\* plan.posts.filter(p => p.status === PostStatus.APPROVED)
ApprovedPosts(p) == SelectSeq(p.posts, IsApproved)

\* The dialog's confirm button: with at least one approved post, sendToTelegram
\* is called with the approved posts of the plan the handler closed over.
handlePublish ==
  /\ showPublishDialog
  /\ plan # NoPlan
  /\ Len(ApprovedPosts(plan)) > 0
  /\ pub.pc = "idle"
  /\ ops < MaxOps
  /\ pub' = [pc |-> "sending", plan |-> plan, approvedPosts |-> ApprovedPosts(plan)]
  /\ ops' = ops + 1
  /\ UNCHANGED <<histVars, step, loadingStage, plan, showPublishDialog, runPc, imgIdx, edits,
                 regen, editsOk, lastEdit, lastPublish, runError, imgVars, pureVars>>

\* Mutant: every post is marked PUBLISHED, whatever its status.
PublishedPlan_FlipsAll(p) ==
  [p EXCEPT !.posts = [i \in 1..Len(p.posts) |-> [p.posts[i] EXCEPT !.status = PUBLISHED]]]

\* The plan handlePublish hands to setPlan after sendToTelegram resolved.
PublishedPlan(p) ==
  [p EXCEPT !.posts = [i \in 1..Len(p.posts) |->
     IF p.posts[i].status = APPROVED
     THEN [p.posts[i] EXCEPT !.status = PUBLISHED]
     ELSE p.posts[i]]]

PublishResolved ==
  /\ pub.pc = "sending"
  /\ plan' = PublishedPlan(pub.plan)
  /\ showPublishDialog' = FALSE
  /\ lastPublish' = "ok"
  /\ pub' = IdlePublish
  /\ UNCHANGED <<histVars, step, loadingStage, runPc, imgIdx, edits, regen, ops, editsOk,
                 lastEdit, runError, imgVars, pureVars>>

\* Mutant: the status transition is committed although sendToTelegram threw.
PublishRejected_Commits ==
  /\ pub.pc = "sending"
  /\ plan' = [pub.plan EXCEPT !.posts = [i \in 1..Len(pub.plan.posts) |->
                IF pub.plan.posts[i].status = APPROVED
                THEN [pub.plan.posts[i] EXCEPT !.status = PUBLISHED]
                ELSE pub.plan.posts[i]]]
  /\ lastPublish' = "fail"
  /\ pub' = IdlePublish
  /\ UNCHANGED <<histVars, step, loadingStage, showPublishDialog, runPc, imgIdx, edits,
                 regen, ops, editsOk, lastEdit, runError, imgVars, pureVars>>

\* sendToTelegram threw: handlePublish's catch only alerts.
PublishRejected ==
  /\ pub.pc = "sending"
  /\ lastPublish' = "fail"
  /\ pub' = IdlePublish
  /\ UNCHANGED <<histVars, step, loadingStage, plan, showPublishDialog, runPc, imgIdx, edits,
                 regen, ops, editsOk, lastEdit, runError, imgVars, pureVars>>

\* ---------------------------------------------------------------- handleRegenerateImage
\* The image is cleared with an updater function, then the image call is awaited.
handleRegenerateImage(id) ==
  /\ CanClickPost(id)
  /\ regen.pc = "idle"
  /\ plan' = SetImageUrl(plan, id, EmptyUrl)
  /\ regen' = [pc |-> "imageCall", id |-> id]
  /\ ops' = ops + 1
  /\ UNCHANGED <<histVars, step, loadingStage, showPublishDialog, runPc, imgIdx, edits, pub,
                 editsOk, lastEdit, lastPublish, runError, imgVars, pureVars>>

RegenerateImageDone(ok) ==
  /\ regen.pc = "imageCall"
  /\ plan' = SetImageUrl(plan, regen.id, generateImageForPost(regen.id, ok))
  /\ regen' = IdleRegen
  /\ UNCHANGED <<histVars, step, loadingStage, showPublishDialog, runPc, imgIdx, edits, pub,
                 ops, editsOk, lastEdit, lastPublish, runError, imgVars, pureVars>>

\* ---------------------------------------------------------------- specification
Next ==
  \/ \E r \in Runs : handleFormSubmit(r)
  \/ \E r \in Runs : AnalysisResolved(r)
  \/ \E r \in Runs : AnalysisRejected(r)
  \/ \E r \in Runs : PauseDone(r)
  \/ \E r \in Runs : PlanTextResolved(r)
  \/ \E r \in Runs : PlanTextRejected(r)
  \/ \E r \in Runs : ImageThrottleDone(r)
  \/ \E r \in Runs, ok \in BOOLEAN : ImageCallDone(r, ok)
  \/ GoBack
  \/ \E id \in PostIds : approvePost(id)
  \/ \E s \in EditSlots, id \in PostIds : handleEditPost(s, id)
  \/ \E s \in EditSlots, u \in EditResponses : EditTextResolved(s, u)
  \/ \E s \in EditSlots : EditTextRejected(s)
  \/ \E s \in EditSlots, ok \in BOOLEAN : EditImageDone(s, ok)
  \/ OpenPublishDialog
  \/ CancelPublishDialog
  \/ handlePublish
  \/ PublishResolved
  \/ PublishRejected
  \/ \E id \in PostIds : handleRegenerateImage(id)
  \/ \E ok \in BOOLEAN : RegenerateImageDone(ok)

Spec == Init /\ [][Next]_vars

\* The gated part of a run: each awaited call settles (fetchWithRetry gives up
\* after its retries) and the one-second timer fires.
GatedStep(r) ==
  \/ AnalysisResolved(r)
  \/ AnalysisRejected(r)
  \/ PauseDone(r)
  \/ PlanTextResolved(r)
  \/ PlanTextRejected(r)

\* The runs with the user operations that write the store through an updater
\* or at once (back, approve, regenerate); edits and publishes, which touch
\* neither loadingStage nor a run's position, are left out.
RunsNext ==
  \/ \E r \in Runs : handleFormSubmit(r)
  \/ \E r \in Runs : GatedStep(r)
  \/ \E r \in Runs : ImageThrottleDone(r)
  \/ \E r \in Runs, ok \in BOOLEAN : ImageCallDone(r, ok)
  \/ GoBack
  \/ \E id \in PostIds : approvePost(id)
  \/ \E id \in PostIds : handleRegenerateImage(id)
  \/ \E ok \in BOOLEAN : RegenerateImageDone(ok)

SpecLive == Init /\ [][RunsNext]_vars /\ \A r \in Runs : WF_vars(GatedStep(r))

\* ---------------------------------------------------------------- fetchWithRetry
\* The two versions of the helper: geminiService.ts (backoff factor 1.5, 'limit'
\* is a quota marker) and part_000 (backoff factor 2).
Variants == {"geminiService", "part_000"}

\* What the wrapped operation can fail with: a message containing '429', a
\* status of 429, a message containing 'RESOURCE_EXHAUSTED', 'Quota' or
\* 'limit', or anything else.
Errors == {"msg429", "status429", "RESOURCE_EXHAUSTED", "Quota", "limit", "other"}

\* isQuotaError (geminiService.ts:18-23), the condition of part_000:17-22.
IsQuotaError(variant, error) ==
  \/ error \in {"msg429", "status429", "RESOURCE_EXHAUSTED", "Quota"}
  \/ variant = "geminiService" /\ error = "limit"

\* Variant that retries on any error while retries remain.
ShouldRetry_AnyError(variant, retries, error) == retries > 0

\* Mutant: the retry budget is checked off by one (retries >= 0).
ShouldRetry_OffByOne(variant, retries, error) ==
  retries >= 0 /\ IsQuotaError(variant, error)

\* The retry condition of the catch block.
ShouldRetry(variant, retries, error) == retries > 0 /\ IsQuotaError(variant, error)

\* Delays are kept in units of 1/2^MaxRetries ms, so that delay * 1.5 is exact.
DelayScale == 2 ^ MaxRetries

\* delay * 1.5 (geminiService.ts:28), delay * 2 (part_000:25)
NextDelay(variant, delay) ==
  IF variant = "geminiService" THEN (delay * 3) \div 2 ELSE delay * 2

\* The initial delays the code configures: 5000 (default, geminiService.ts:14),
\* 8000 (generateAnalysis, geminiService.ts:77), 2000 (default, part_000:13).
InitialDelays == {2000, 5000, 8000}

\* fetchWithRetry(fn, retries, delay) is called.
fetchWithRetry(variant, retries, delay) ==
  /\ rt.pc = "idle"
  /\ rt' = [pc |-> "calling", variant |-> variant, budget |-> retries,
            retries |-> retries, delay |-> delay * DelayScale, attempts |-> 0,
            waits |-> << >>, error |-> "none"]
  /\ UNCHANGED <<appVars, img, norm, dedup, appended>>

\* await fn() resolved: its value is returned.
FnResolved ==
  /\ rt.pc = "calling"
  /\ rt' = [rt EXCEPT !.pc = "returned", !.attempts = @ + 1]
  /\ UNCHANGED <<appVars, img, norm, dedup, appended>>

\* await fn() threw error: either the delay is awaited, or the error is rethrown.
FnRejected(error) ==
  /\ rt.pc = "calling"
  /\ rt' = IF ShouldRetry(rt.variant, rt.retries, error)
           THEN [rt EXCEPT !.pc = "waiting", !.attempts = @ + 1, !.error = error,
                           !.waits = Append(@, rt.delay)]
           ELSE [rt EXCEPT !.pc = "thrown", !.attempts = @ + 1, !.error = error]
  /\ UNCHANGED <<appVars, img, norm, dedup, appended>>

\* The delay elapsed: return fetchWithRetry(fn, retries - 1, delay * factor).
RetryDelayDone ==
  /\ rt.pc = "waiting"
  /\ rt' = [rt EXCEPT !.pc = "calling", !.retries = @ - 1,
                      !.delay = NextDelay(rt.variant, @)]
  /\ UNCHANGED <<appVars, img, norm, dedup, appended>>

\* The caller took the value or the error.
RetryFinished ==
  /\ rt.pc \in {"returned", "thrown"}
  /\ rt' = IdleRetry
  /\ UNCHANGED <<appVars, img, norm, dedup, appended>>

RetryNext ==
  \/ \E v \in Variants, n \in 0..MaxRetries, d \in InitialDelays : fetchWithRetry(v, n, d)
  \/ FnResolved
  \/ \E e \in Errors : FnRejected(e)
  \/ RetryDelayDone
  \/ RetryFinished

SpecRetry == Init /\ [][RetryNext]_vars

\* ---------------------------------------------------------------- image generation
\* Attempts made for one post in the stand-alone image specification.
MaxImageAttempts == 2
\* Distinct values Math.random() can return.
NumSeeds == 2

\* What the image call can end with: a response with an inlineData part, a
\* response without one, or fetchWithRetry throwing (any error, retries
\* exhausted included).
ImageOutcomes == {"inlineData", "noInlineData", "callThrew"}

\* Math.random() is a float in [0, 1); it never prints as a post id.
RandomSeeds == {-k : k \in 1..NumSeeds}

\* The image reference each version produces for the post with this id.
\* geminiService.ts: a response without inline data throws inside the try, and
\* the catch returns the placeholder seeded with post.id.
\* part_000: imageUrl stays '' when no part has inline data, and the catch
\* seeds the placeholder with Math.random().
ImageReference(variant, id, outcome, rnd) ==
  IF outcome = "inlineData" THEN DataUrl
  ELSE IF variant = "geminiService" THEN PlaceholderUrl(id)
  ELSE IF outcome = "noInlineData" THEN EmptyUrl
  ELSE PlaceholderUrl(rnd)

\* Image generation is requested for the post that carries this id.
ImageStart(variant, id) ==
  /\ img.pc = "idle"
  /\ img' = [pc |-> "generating", variant |-> variant, id |-> id, results |-> << >>]
  /\ UNCHANGED <<appVars, rt, norm, dedup, appended>>

\* One generation for the post ended with this outcome.
ImageAttempt(outcome, rnd) ==
  /\ img.pc = "generating"
  /\ Len(img.results) < MaxImageAttempts
  /\ img' = [img EXCEPT !.results =
               Append(@, [outcome |-> outcome,
                          url |-> ImageReference(img.variant, img.id, outcome, rnd)])]
  /\ UNCHANGED <<appVars, rt, norm, dedup, appended>>

ImageFinished ==
  /\ img.pc = "generating"
  /\ Len(img.results) > 0
  /\ img' = IdleImage
  /\ UNCHANGED <<appVars, rt, norm, dedup, appended>>

ImageNext ==
  \/ \E v \in Variants, id \in PostIds : ImageStart(v, id)
  \/ \E o \in ImageOutcomes, s \in RandomSeeds : ImageAttempt(o, s)
  \/ ImageFinished

SpecImage == Init /\ [][ImageNext]_vars

\* ---------------------------------------------------------------- history exclusion
\* Entries of the history list handed to generateContentPlan in the stand-alone
\* exclusion specification.
MaxHistLen == 3

\* Niche strings as sequences of char codes: "A", "a", "AB", "ab".
Niches == {<<65>>, <<97>>, <<65, 66>>, <<97, 98>>}
Titles == {"T1", "T2"}
HistoryItems == [niche : Niches, title : Titles]
Histories == UNION {[1..n -> HistoryItems] : n \in 0..MaxHistLen}

\* Variant that leaves the case of the letters alone.
toLowerCase_KeepsCase(str) == str

\* String.prototype.toLowerCase on the letters A..Z.
toLowerCase(str) == [i \in 1..Len(str) |-> IF str[i] \in 65..90 THEN str[i] + 32 ELSE str[i]]

RECURSIVE Filter(_, _)
\* history.filter(h => h.niche.toLowerCase() === niche.toLowerCase())
Filter(h, niche) ==
  IF h = << >> THEN << >>
  ELSE IF toLowerCase(Head(h).niche) = toLowerCase(niche)
       THEN <<Head(h)>> \o Filter(Tail(h), niche)
       ELSE Filter(Tail(h), niche)

\* relevantHistory = history.filter(...).map(h => h.title)
relevantHistory(h, niche) ==
  LET kept == Filter(h, niche) IN [i \in 1..Len(kept) |-> kept[i].title]

\* historyPrompt: the instruction with the joined titles, or the empty string.
historyPrompt(h, niche) ==
  IF Len(relevantHistory(h, niche)) > 0
  THEN [emitted |-> TRUE, topics |-> relevantHistory(h, niche)]
  ELSE [emitted |-> FALSE, topics |-> << >>]

\* generateContentPlan builds the instruction for this niche and history.
BuildPrompt(niche, h) ==
  /\ dedup.pc = "idle"
  /\ dedup' = [pc |-> "built", niche |-> niche, history |-> h,
               prompt |-> historyPrompt(h, niche)]
  /\ UNCHANGED <<appVars, rt, img, norm, appended>>

\* The instruction was sent.
PromptSent ==
  /\ dedup.pc = "built"
  /\ dedup' = IdleDedup
  /\ UNCHANGED <<appVars, rt, img, norm, appended>>

DedupNext ==
  \/ \E n \in Niches, h \in Histories : BuildPrompt(n, h)
  \/ PromptSent

SpecDedup == Init /\ [][DedupNext]_vars

\* ---------------------------------------------------------------- history cap
\* Entries appended over all generations in the stand-alone history specification.
MaxAppended == 160

\* Posts of a plan: one per day of the period (7 for a week, 30 for a month).
PlanSizes == {7, 30}

\* posts.map(p => ({ niche: data.niche, title: p.title })) for a plan of n posts;
\* the titles are numbered in the order they are appended.
NewTitles(n) == [i \in 1..n |-> [niche |-> "niche", title |-> Len(appended) + i]]

\* A plan generation completed: newHistory = [...history, ...titles],
\* setHistory(newHistory), and newHistory.slice(-100) is stored.
HistorySaved(n) ==
  /\ Len(appended) + n <= MaxAppended
  /\ history' = history \o NewTitles(n)
  /\ savedHistory' = SliceLast(history \o NewTitles(n), HistoryCap)
  /\ appended' = appended \o NewTitles(n)
  /\ UNCHANGED <<appVarsNoHistory, rt, img, norm, dedup>>

\* The page is loaded again: the mount effect sets history to the stored list,
\* when there is one.
HistoryLoaded ==
  /\ history' = savedHistory
  /\ UNCHANGED <<appVarsNoHistory, savedHistory, appended, rt, img, norm, dedup>>

HistoryNext ==
  \/ \E n \in PlanSizes : HistorySaved(n)
  \/ HistoryLoaded

SpecHistory == Init /\ [][HistoryNext]_vars

\* ---------------------------------------------------------------- normalisation
\* Raw records in the model's answer in the stand-alone normalisation specification.
MaxRaw == 2
\* Largest day value a raw record carries.
MaxDay == 3

Periods == {"WEEK", "MONTH"}

\* const days = period === Period.WEEK ? 7 : 30
DaysFor(period) == IF period = "WEEK" THEN 7 ELSE 30

\* A raw record of the answer: its day field, when it has one.
MissingDay == [hasDay |-> FALSE, day |-> 0]
RawRecords == {[hasDay |-> TRUE, day |-> d] : d \in 1..MaxDay} \cup {MissingDay}
RawAnswers == UNION {[1..n -> RawRecords] : n \in 1..MaxRaw}

\* Calendar days, counted from some origin; new Date(NaN) prints 'Invalid Date'.
InvalidDate == [valid |-> FALSE, day |-> 0]
DateOf(day) == [valid |-> TRUE, day |-> day]

\* new Date(Date.now() + offset * 24 * 60 * 60 * 1000).toLocaleDateString('ru-RU'),
\* with today the day Date.now() falls on.
DateAfter(today, offset) == DateOf(today + offset)

\* The post made of the index-th raw record (index counted from 0).
\* geminiService.ts: date from p.day - 1 (NaN when day is undefined), imageUrl ''.
\* part_000: date from the index, imageUrl the result of the image loop.
NormalizePost(variant, raw, index, today, outcome, rnd) ==
  [id |-> index + 1,
   day |-> raw,
   date |-> IF variant = "part_000" THEN DateAfter(today, index)
            ELSE IF raw.hasDay THEN DateAfter(today, raw.day - 1)
            ELSE InvalidDate,
   status |-> PENDING,
   editCount |-> 0,
   imageUrl |-> IF variant = "part_000"
                THEN ImageReference(variant, index + 1, outcome, rnd)
                ELSE EmptyUrl]

\* generateContentPlan is called on day runStart; the answer arrives and is
\* normalised on day today (the same day, or the next one when midnight passed).
PlanNormalized(variant, period, runStart, today, answer, outcomes, rnd) ==
  /\ norm.pc = "idle"
  /\ norm' = [pc |-> "normalized", variant |-> variant, period |-> period,
              days |-> DaysFor(period), runStart |-> runStart, answer |-> answer,
              posts |-> [i \in 1..Len(answer) |->
                           NormalizePost(variant, answer[i], i - 1, today, outcomes[i], rnd)]]
  /\ UNCHANGED <<appVars, rt, img, dedup, appended>>

\* The caller took the posts.
PlanReturned ==
  /\ norm.pc = "normalized"
  /\ norm' = IdleNorm
  /\ UNCHANGED <<appVars, rt, img, dedup, appended>>

NormNext ==
  \/ \E v \in Variants, p \in Periods, start \in 0..1, late \in 0..1, a \in RawAnswers,
        rnd \in RandomSeeds :
       \E o \in [1..Len(a) -> ImageOutcomes] :
         PlanNormalized(v, p, start, start + late, a, o, rnd)
  \/ PlanReturned

SpecNorm == Init /\ [][NormNext]_vars

\* ---------------------------------------------------------------- call sites
\* The calls wrapped in fetchWithRetry: generateAnalysis (search-augmented),
\* generateContentPlan (plan text), generateImageForPost (image), and the text
\* and image calls of editPostContent.
CallSites == {"analysis", "planText", "image", "editText", "editImage"}

\* The default parameters of fetchWithRetry: retries = 5, delay = 5000 in
\* geminiService.ts, retries = 3, delay = 2000 in part_000.
DefaultBudget(variant) ==
  IF variant = "geminiService" THEN [retries |-> 5, delay |-> 5000]
  ELSE [retries |-> 3, delay |-> 2000]

\* The budget each call site passes: generateAnalysis of geminiService.ts
\* passes (5, 8000); every other call leaves the defaults.
SiteBudget(variant, site) ==
  IF variant = "geminiService" /\ site = "analysis"
  THEN [retries |-> 5, delay |-> 8000]
  ELSE DefaultBudget(variant)

\* A call site invokes fetchWithRetry with its budget.
CallFrom(variant, site) ==
  /\ site \in CallSites
  /\ fetchWithRetry(variant, SiteBudget(variant, site).retries,
                    SiteBudget(variant, site).delay)

SitesNext ==
  \/ \E v \in Variants, site \in CallSites : CallFrom(v, site)
  \/ FnResolved
  \/ \E e \in Errors : FnRejected(e)
  \/ RetryDelayDone
  \/ RetryFinished

SpecSites == Init /\ [][SitesNext]_vars

\* ================================================================ claims
ActiveStages == {"analysis", "pause", "planText", "throttle", "imageCall"}

\* C1: at no reachable state are the stages (analysis, plan-text or image loop)
\* of two runs in progress at the same time.
C1_RunsNeverOverlap ==
  Cardinality({r \in Runs : runPc[r] \in ActiveStages}) <= 1

\* Every post of p other than the one with identifier id is the same in q,
\* position by position.
OthersUnchanged(p, q, id) ==
  /\ Len(q.posts) = Len(p.posts)
  /\ \A i \in 1..Len(p.posts) : p.posts[i].id # id => q.posts[i] = p.posts[i]

\* C2: an image-stage write, an approve and the commit of an edit change only
\* the post whose id was given; every other post of the plan is left as it was
\* in the store.
C2_PatchesOnePost ==
  [][\A id \in PostIds :
       (\/ approvePost(id)
        \/ \E s \in EditSlots : edits[s].pc = "image" /\ edits[s].id = id
                                 /\ edits'[s].pc = "idle"
        \/ \E r \in Runs : runPc[r] = "imageCall" /\ PostId(r, imgIdx[r]) = id
                            /\ runPc'[r] # "imageCall")
       => OthersUnchanged(plan, plan', id)]_vars

\* C3: a new plan's posts have editCount 0, and no step lowers the editCount
\* of a post of the plan.
C3_EditCountMonotone ==
  [][/\ \A r \in Runs : runPc[r] = "planText" /\ runPc'[r] # "planText"
                         /\ plan' # plan
          => \A i \in 1..Len(plan'.posts) : plan'.posts[i].editCount = 0
     /\ \A id \in PostIds : HasPost(plan, id) /\ HasPost(plan', id)
          => FindPost(plan', id).editCount >= FindPost(plan, id).editCount]_vars

\* ---------------------------------------------------------------- C4
NonDecreasing(seq) == \A i \in 1..(Len(seq) - 1) : seq[i] <= seq[i + 1]

C5_ApproveOnlyFromPending ==
  [][\A id \in PostIds :
       approvePost(id) /\ FindPost(plan, id).status \in {APPROVED, PUBLISHED}
       => FindPost(plan', id).status = FindPost(plan, id).status]_vars

\* ---------------------------------------------------------------- C6
\* C6: whenever a post's status in the store becomes PUBLISHED, its status in
\* the store just before was APPROVED and the step is the completion of a
\* successful publish call.
C6_PublishedOnlyFromApproved ==
  [][\A id \in PostIds :
       /\ HasPost(plan', id)
       /\ FindPost(plan', id).status = PUBLISHED
       /\ ~(HasPost(plan, id) /\ FindPost(plan, id).status = PUBLISHED)
       => /\ HasPost(plan, id)
          /\ FindPost(plan, id).status = APPROVED
          /\ pub.pc = "sending" /\ pub'.pc = "idle" /\ lastPublish' = "ok"]_vars

\* ---------------------------------------------------------------- C7
\* C7: the posts handed to sendToTelegram are exactly the posts that are
\* APPROVED when handlePublish is called, and when the call has succeeded every
\* post that was APPROVED at the call is PUBLISHED in the store and every other
\* post has the status it had at the call.
C7_PublishBatch ==
  [][/\ pub.pc = "idle" /\ pub'.pc = "sending"
          => /\ pub'.plan = plan
             /\ \A i \in 1..Len(plan.posts) :
                  plan.posts[i].status = APPROVED
                  <=> \E j \in 1..Len(pub'.approvedPosts) :
                        pub'.approvedPosts[j] = plan.posts[i]
             /\ \A j \in 1..Len(pub'.approvedPosts) :
                  \E i \in 1..Len(plan.posts) : pub'.approvedPosts[j] = plan.posts[i]
     /\ pub.pc = "sending" /\ pub'.pc = "idle" /\ lastPublish' = "ok"
          => /\ Len(plan'.posts) = Len(pub.plan.posts)
             /\ \A i \in 1..Len(pub.plan.posts) :
                  /\ plan'.posts[i].id = pub.plan.posts[i].id
                  /\ plan'.posts[i].status =
                       IF pub.plan.posts[i].status = APPROVED THEN PUBLISHED
                       ELSE pub.plan.posts[i].status]_vars

\* A publish succeeded: one post is PUBLISHED, another one was not approved
\* and is still PENDING.
C7_Witness ==
  /\ lastPublish = "ok"
  /\ pub.pc = "idle"
  /\ \E i, j \in 1..Len(plan.posts) :
       plan.posts[i].status = PUBLISHED /\ plan.posts[j].status = PENDING

\* ---------------------------------------------------------------- C8
\* C8: the step that ends a failed publish call leaves the plan store as it was.
C8_PublishFailureWritesNothing ==
  [][pub.pc = "sending" /\ pub'.pc = "idle" /\ lastPublish' = "fail"
       => plan' = plan]_vars

\* A publish failed and the approved post is still APPROVED.
C8_Witness ==
  /\ lastPublish = "fail"
  /\ pub.pc = "idle"
  /\ \E i \in 1..Len(plan.posts) : plan.posts[i].status = APPROVED

\* ---------------------------------------------------------------- C9
\* C9: the commit of a successful edit leaves the edited post PENDING in the
\* store, with an editCount equal to the number of successful edits of that
\* post so far.
C9_EditCountCountsEdits ==
  [][\A s \in EditSlots :
       edits[s].pc = "image" /\ edits'[s].pc = "idle"
       => /\ HasPost(plan', edits[s].id)
          /\ FindPost(plan', edits[s].id).status = PENDING
          /\ FindPost(plan', edits[s].id).editCount = editsOk'[edits[s].id]]_vars

\* ---------------------------------------------------------------- C10
\* C10: the step that ends a failed edit (the edit-text call raised or returned
\* an empty text) leaves the plan store as it was.
C10_EditFailureWritesNothing ==
  [][\A s \in EditSlots :
       edits[s].pc = "text" /\ edits'[s].pc = "idle" => plan' = plan]_vars

\* An edit of an approved post with a generated image failed: the post is still
\* APPROVED, unedited, with its image.
C10_Witness ==
  /\ lastEdit = "fail"
  /\ \A s \in EditSlots : edits[s].pc = "idle"
  /\ \E i \in 1..Len(plan.posts) :
       /\ plan.posts[i].status = APPROVED
       /\ plan.posts[i].editCount = 0
       /\ plan.posts[i].content = GeneratedText
       /\ plan.posts[i].imageUrl = DataUrl
       /\ editsOk[plan.posts[i].id] = 0

\* ---------------------------------------------------------------- C11
\* C11: once the image stage of the active plan's run has finished, every post
\* of the plan has a non-empty imageUrl, also when edits, regenerations or
\* publishes ran concurrently with the stage (stated for the states in which no
\* regeneration is in flight: handleRegenerateImage empties the imageUrl of its
\* post while it waits).
C11_ImagesStayFilled ==
  \A r \in Runs :
    runPc[r] = "done" /\ plan.run = r /\ regen.pc = "idle"
    => \A i \in 1..Len(plan.posts) : plan.posts[i].imageUrl # EmptyUrl

\* C12: whenever image generation for a post fails (the call threw, or the
\* response had no inline image data), the reference produced is the
\* placeholder keyed on the post's id: never empty, and the same for any two
\* failures of the same post.
C12_FallbackKeyedOnId ==
  LET failed == {k \in 1..Len(img.results) : img.results[k].outcome # "inlineData"} IN
    /\ \A k \in failed : /\ img.results[k].url # EmptyUrl
                         /\ img.results[k].url = PlaceholderUrl(img.id)
    /\ \A j, k \in failed : img.results[j].url = img.results[k].url

\* ---------------------------------------------------------------- C13
\* C13: when the image call of a post fails, the run goes on: the image stage
\* moves to the next post (or finishes after the last one), no other post of
\* the plan is changed, the run does not reach the top-level catch (no error
\* alerted, loading stage untouched) and the plan stays initialized; a finished
\* image stage has written every post of its plan.
C13_ImageFailureNotFatal ==
  /\ [][\A r \in Runs :
          ImageCallDone(r, FALSE)
          => /\ runPc'[r] = IF imgIdx[r] = NumPosts THEN "done" ELSE "throttle"
             /\ imgIdx'[r] = imgIdx[r] + 1
             /\ runError'[r] = "none"
             /\ loadingStage' = loadingStage
             /\ plan' # NoPlan
             /\ OthersUnchanged(plan, plan', PostId(r, imgIdx[r]))]_vars
  /\ [](\A r \in Runs : runPc[r] = "done" => Len(imgLog[r]) = NumPosts)

\* The image of the first post failed (placeholder), the stage went on to the
\* second post and the run ended without an error.
C13_Witness ==
  \E r \in Runs :
    /\ runPc[r] = "done"
    /\ runError[r] = "none"
    /\ loadingStage = -1
    /\ plan.run = r
    /\ plan.posts[1].imageUrl = PlaceholderUrl(PostId(r, 1))
    /\ plan.posts[2].imageUrl = DataUrl

\* ---------------------------------------------------------------- C14
\* C14: a run whose analysis stage fails ends there with the plan store
\* holding no plan, and it never invoked generateContentPlan (the store never
\* holds a plan of that run).
C14_AnalysisFailureLeavesNoPlan ==
  /\ [][\A r \in Runs :
          AnalysisRejected(r) => runPc'[r] = "failed" /\ plan' = NoPlan]_vars
  /\ [](\A r \in Runs : runError[r] = "analysis" => runPc[r] = "failed" /\ plan.run # r)

\* ---------------------------------------------------------------- C15
\* C15 as stated: after a run whose plan-text stage failed, the plan store
\* holds that run's analysis and no posts.
C15_AnalysisOnlyAfterPlanTextFailure ==
  \A r \in Runs :
    runError[r] = "planText" => plan.run = r /\ plan.posts = << >>

\* C15, amended: a run whose plan-text stage fails aborts without having
\* written the plan store: the failing step leaves the store as it is, and no
\* plan of that run (its analysis, with or without posts) is ever committed.
C15_PlanTextFailureWritesNothing ==
  /\ [][\A r \in Runs :
          PlanTextRejected(r) => plan' = plan /\ runPc'[r] = "failed"]_vars
  /\ [](\A r \in Runs : runError[r] = "planText" => runPc[r] = "failed" /\ plan.run # r)

\* The plan-text stage of the first run failed: the store holds no plan.
C15_Witness ==
  /\ runError[1] = "planText"
  /\ runPc[1] = "failed"
  /\ loadingStage = -1
  /\ plan = NoPlan

\* ---------------------------------------------------------------- C16
\* C16: within one run the image stage has at most one image call in flight,
\* and it writes the imageUrls in the order of the posts of the generated
\* plan: the k-th write of the run is for the k-th post.
C16_ImageStageSerial ==
  \A r \in Runs :
    /\ Cardinality(imgInFlight[r]) <= 1
    /\ Len(imgLog[r]) <= NumPosts
    /\ \A k \in 1..Len(imgLog[r]) : imgLog[r][k] = generateContentPlan(r)[k].id
    /\ \A id \in imgInFlight[r] : id = generateContentPlan(r)[Len(imgLog[r]) + 1].id

\* The first post's image has been written and the call for the second post
\* is in flight.
C16_Witness ==
  \E r \in Runs :
    /\ imgLog[r] = <<PostId(r, 1)>>
    /\ imgInFlight[r] = {PostId(r, 2)}
    /\ runPc[r] = "imageCall"

\* ---------------------------------------------------------------- C17
\* Two letters that differ at most in case.
SameLetter(c, d) ==
  \/ c = d
  \/ c \in 65..90 /\ d = c + 32
  \/ d \in 65..90 /\ c = d + 32

EqualIgnoringCase(a, b) ==
  Len(a) = Len(b) /\ \A i \in 1..Len(a) : SameLetter(a[i], b[i])

\* C17: the exclusion list of the instruction built for niche N from history H
\* is exactly the titles of the entries of H whose niche equals N ignoring
\* letter case, in history order; a title recorded only under another niche is
\* not in it; with no matching entry no exclusion instruction is emitted.
C17_ExclusionList ==
  dedup.pc = "built" =>
    LET H == dedup.history
        topics == dedup.prompt.topics
        matching == {i \in 1..Len(H) : EqualIgnoringCase(H[i].niche, dedup.niche)}
    IN /\ Len(topics) = Cardinality(matching)
       /\ \A i \in matching : topics[Cardinality({j \in matching : j <= i})] = H[i].title
       /\ \A k \in 1..Len(topics) : \E i \in matching : H[i].title = topics[k]
       /\ dedup.prompt.emitted <=> matching # {}

\* Niche "AB": the history holds T1 under "ab", T2 under "a" and T2 under "AB";
\* the exclusion list is T1, T2 (the first and the third entry).
C17_Witness ==
  /\ dedup.pc = "built"
  /\ dedup.niche = <<65, 66>>
  /\ dedup.history = <<[niche |-> <<97, 98>>, title |-> "T1"],
                       [niche |-> <<97>>, title |-> "T2"],
                       [niche |-> <<65, 66>>, title |-> "T2"]>>
  /\ dedup.prompt = [emitted |-> TRUE, topics |-> <<"T1", "T2">>]

\* ---------------------------------------------------------------- C18
\* C18: after any number of completed generations the retained (stored)
\* history list holds at most 100 entries, and they are the most recently
\* appended ones, in the order they were appended.
C18_HistoryCapped ==
  /\ Len(savedHistory) <= 100
  /\ Len(savedHistory) = IF Len(appended) < 100 THEN Len(appended) ELSE 100
  /\ \A k \in 1..Len(savedHistory) :
       savedHistory[k] = appended[Len(appended) - Len(savedHistory) + k]

\* More than 100 entries were appended over several generations and loads; the
\* list loaded from the store holds the last 100 of them.
C18_Witness ==
  /\ Len(appended) > 100
  /\ Len(savedHistory) = 100
  /\ history = savedHistory
  /\ savedHistory[1].title = Len(appended) - 99
  /\ savedHistory[100].title = Len(appended)

\* ---------------------------------------------------------------- C19
\* C19: 7 days are requested for period WEEK and 30 for MONTH, and every raw
\* record of the answer (duplicate and missing day values included) becomes a
\* post dated run start + (day - 1) days, with status PENDING, editCount 0 and
\* an empty imageUrl.
C19_Normalisation ==
  norm.pc = "normalized" =>
    /\ norm.period = "WEEK" => norm.days = 7
    /\ norm.period = "MONTH" => norm.days = 30
    /\ Len(norm.posts) = Len(norm.answer)
    /\ \A i \in 1..Len(norm.posts) :
         /\ norm.posts[i].date.valid
         /\ norm.answer[i].hasDay
            => norm.posts[i].date.day = norm.runStart + (norm.answer[i].day - 1)
         /\ norm.posts[i].status = PENDING
         /\ norm.posts[i].editCount = 0
         /\ norm.posts[i].imageUrl = EmptyUrl

\* ---------------------------------------------------------------- C20
\* The rate-limit / quota markers: HTTP 429 (in the message or as status),
\* "resource exhausted", "quota", "limit".
RateLimitErrors == {"msg429", "status429", "RESOURCE_EXHAUSTED", "Quota", "limit"}

\* C20: when the operation fails with an error that is not a rate-limit / quota
\* error, fetchWithRetry waits no more and attempts no more, whatever budget
\* remains: the operation was invoked once more and that error is thrown to the
\* caller.
C20_OtherErrorsPropagate ==
  /\ [][\A e \in Errors \ RateLimitErrors :
          FnRejected(e)
          => /\ rt'.pc = "thrown"
             /\ rt'.error = e
             /\ rt'.attempts = rt.attempts + 1
             /\ rt'.waits = rt.waits
             /\ rt'.retries = rt.retries]_vars
  /\ [][rt.pc = "thrown" => rt'.pc = "idle"]_vars

\* After one rate-limit failure and one wait the operation failed with another
\* kind of error: it is thrown on the second attempt with retries still left.
C20_Witness ==
  /\ rt.pc = "thrown"
  /\ rt.error = "other"
  /\ rt.retries >= 1
  /\ rt.attempts = 2
  /\ Len(rt.waits) = 1

\* ---------------------------------------------------------------- C21
\* C21: in the image stage of a fresh plan the throttle delay is waited before
\* the image call of every post but the first: the call of a post is issued
\* out of the throttle delay exactly when the post is not the first one.
C21_NoThrottleBeforeFirst ==
  [][\A r \in Runs :
       runPc[r] # "imageCall" /\ runPc'[r] = "imageCall"
       => (runPc[r] = "throttle" <=> imgIdx[r] > 1)]_vars

\* ---------------------------------------------------------------- C22
\* The write of url for post id took effect: the post has that imageUrl and
\* is otherwise as before, and so is every other post of the plan.
ImageWritten(id, url) ==
  /\ plan'.run = plan.run
  /\ OthersUnchanged(plan, plan', id)
  /\ FindPost(plan', id) = [FindPost(plan, id) EXCEPT !.imageUrl = url]

\* C22: the write of the background image stage and the write of a
\* regeneration each set the imageUrl of their post to their own, non-empty,
\* value, whatever the other has written before, and change no other field
\* and no other post; so after both have written the same post its imageUrl is
\* the value written last.
C22_LastWriteWins ==
  [][\A ok \in BOOLEAN :
       /\ \A r \in Runs :
            ImageCallDone(r, ok) /\ HasPost(plan, PostId(r, imgIdx[r]))
            => /\ generateImageForPost(PostId(r, imgIdx[r]), ok) # EmptyUrl
               /\ ImageWritten(PostId(r, imgIdx[r]),
                               generateImageForPost(PostId(r, imgIdx[r]), ok))
       /\ RegenerateImageDone(ok) /\ HasPost(plan, regen.id)
          => /\ generateImageForPost(regen.id, ok) # EmptyUrl
             /\ ImageWritten(regen.id, generateImageForPost(regen.id, ok))]_vars

\* A regeneration of the first post is in flight (it cleared the image), and
\* the image stage has written the same post since.
C22_Witness ==
  \E r \in Runs :
    /\ regen.pc = "imageCall"
    /\ regen.id = PostId(r, 1)
    /\ imgLog[r] = <<PostId(r, 1)>>
    /\ plan.run = r
    /\ plan.posts[1].imageUrl = DataUrl
    /\ \A s \in EditSlots : edits[s].pc = "idle"

\* ---------------------------------------------------------------- C23
\* The first budget is strictly larger than the second: no component is
\* smaller and one at least is larger.
LargerBudget(a, b) ==
  /\ a.retries >= b.retries
  /\ a.delay >= b.delay
  /\ a.retries > b.retries \/ a.delay > b.delay

\* C23: in the version whose call is running, the retry budget (attempts and
\* initial delay) of the image call and of the search-augmented analysis call
\* is strictly larger than the budget of the plain text calls (plan text and
\* edit text).
C23_LargerBudgets ==
  rt.pc # "idle" =>
    \A big \in {"image", "analysis"}, plain \in {"planText", "editText"} :
      LargerBudget(SiteBudget(rt.variant, big), SiteBudget(rt.variant, plain))

\* ---------------------------------------------------------------- C24
GatedStages == {"analysis", "pause", "planText"}

\* C24: the run gate is always eventually released: a run that holds the gate
\* leaves its gated stages, by an error in analysis or plan text or by a
\* successful plan text, and the step that ends them sets loadingStage to -1.
C24_GateReleased ==
  /\ (loadingStage >= 0) ~> (loadingStage = -1)
  /\ \A r \in Runs : (runPc[r] \in GatedStages) ~> (runPc[r] \notin GatedStages)
  /\ [][\A r \in Runs :
          runPc[r] \in GatedStages /\ runPc'[r] \notin GatedStages
          => loadingStage' = -1]_vars

\* The first run failed in its analysis and released the gate; the second run
\* was accepted and has produced its plan.
C24_Witness ==
  /\ runPc[1] = "failed"
  /\ runError[1] = "analysis"
  /\ runPc[2] \in {"throttle", "imageCall", "done"}
  /\ plan.run = 2
  /\ loadingStage = -1

\* ---------------------------------------------------------------- C25
\* The run whose plan the post with this id belongs to.
RunOf(id) == ((id - 1) \div NumPosts) + 1

PlanCommitted == {"throttle", "imageCall", "done"}

\* An operation started against the plan of a run before r completes in this step.
StaleCompletion(r) ==
  \/ \E s \in EditSlots : /\ edits[s].pc # "idle"
                          /\ edits[s].plan.run < r
                          /\ edits'[s].pc = "idle"
  \/ pub.pc # "idle" /\ pub.plan.run < r /\ pub'.pc = "idle"
  \/ regen.pc # "idle" /\ RunOf(regen.id) < r /\ regen'.pc = "idle"
  \/ \E q \in Runs : q < r /\ runPc[q] = "imageCall" /\ runPc'[q] # "imageCall"

\* C25: once a new run has initialized the plan store, the store keeps holding
\* the plan of the latest such run, and the completion of an operation started
\* against an earlier plan (edit, publish, regeneration, background image
\* write) leaves the new plan as it is.
C25_NewPlanNotOverwritten ==
  /\ [](\A r \in Runs : runPc[r] \in PlanCommitted => plan.run >= r)
  /\ [][\A r \in Runs : plan.run = r /\ StaleCompletion(r) => plan' = plan]_vars
====
